---- MODULE Spec2Model ----
(***************************************************************************)
(* Model of the Instaloader download service (src/main.py): the shortcode  *)
(* extractor, the rate-limited fetcher get_post_with_retry and the three   *)
(* HTTP handlers health, post_info and download_post.                      *)
(*                                                                         *)
(* Strings that the code takes apart (URLs, shortcodes) are sequences of   *)
(* one-character strings.  A file name is a record [stem, ext]; a path is  *)
(* a sequence of file names; the file system is the set of existing paths. *)
(***************************************************************************)
EXTENDS Integers, Sequences, FiniteSets, TLC

\* ------------------------------------------------------------------ bounds
NumReq == 2            \* concurrent requests served
MaxRetriesBound == 3   \* get_post_with_retry is called with 0..MaxRetriesBound
MaxUrlLen == 4         \* arbitrary URLs: every string up to this length
MaxCodeLen == 2        \* shortcodes of the well-formed URLs

\* --------------------------------------------------------------- constants
DefaultMaxRetries == 3  \* max_retries: int = 3
BackoffUnit == 60       \* wait = 60 * (attempt + 1)

INSTAGRAM_USER == "grupocrasto"
PleaseWait == "Please wait a few minutes before you try again"
None == [type |-> "None"]
\* login before the handler has called L.test_login()
NotAsked == [raised |-> FALSE, value |-> [type |-> "not asked"]]

Reqs == 1..NumReq

VARIABLES
    session,      \* L: TRUE when the session file was loaded at import time
    pc,           \* position of each request in its handler
    endpoint,     \* the route of each request
    url,          \* body.url
    shortcode,    \* local shortcode
    tmp_dir,      \* local tmp_dir (a path), <<>> before it is assigned
    max_retries,  \* get_post_with_retry: parameter max_retries
    attempt,      \* get_post_with_retry: loop variable attempt
    last_err,     \* get_post_with_retry: local last_err
    post,         \* the post returned by Post.from_shortcode, or None
    media_files,  \* local media_files (iterdir order is arbitrary: a set)
    exc,          \* the exception in flight in the handler, or None
    login,        \* what L.test_login() answered to the request
    response,     \* the HTTP response of the request, or None
    calls,        \* log: answers of the upstream to each Post.from_shortcode call
    sleeps,       \* log: durations passed to time.sleep
    fs,           \* the file system under /tmp: the set of existing paths
    uuids         \* number of uuid4() values drawn so far

vars == <<session, pc, endpoint, url, shortcode, tmp_dir, max_retries, attempt,
          last_err, post, media_files, exc, login, response, calls, sleeps, fs,
          uuids>>

\* ------------------------------------------------------------- str helpers
\* s[from..], as a sequence
Drop(s, n) == SubSeq(s, n + 1, Len(s))

\* index of the first occurrence of character c in s, or 0
RECURSIVE IndexOf(_, _, _)
IndexOf(s, c, i) ==
    IF i > Len(s) THEN 0
    ELSE IF s[i] = c THEN i
    ELSE IndexOf(s, c, i + 1)

\* Python str.split(sep) for a one-character separator: always at least one
\* segment, empty segments are kept
RECURSIVE StrSplit(_, _)
StrSplit(s, sep) ==
    LET i == IndexOf(s, sep, 1)
    IN  IF i = 0 THEN <<s>>
        ELSE <<SubSeq(s, 1, i - 1)>> \o StrSplit(Drop(s, i), sep)

\* [p for p in xs if p]
RECURSIVE NonEmpty(_)
NonEmpty(xs) ==
    IF xs = <<>> THEN <<>>
    ELSE IF Head(xs) # <<>> THEN <<Head(xs)>> \o NonEmpty(Tail(xs))
    ELSE NonEmpty(Tail(xs))

\* ------------------------------------------------------ shortcode_from_url
IndexError == [type |-> "IndexError", msg |-> <<"list index out of range">>]

\* parts = [p for p in url.split("?")[0].split("/") if p]
UrlPartsKeepQuery(u) == NonEmpty(StrSplit(u, "/"))

UrlParts(u) == NonEmpty(StrSplit(StrSplit(u, "?")[1], "/"))

\* parts[-1]; raises IndexError on an empty list
LastPart(parts) ==
    IF parts = <<>> THEN [raised |-> TRUE, value |-> IndexError]
    ELSE [raised |-> FALSE, value |-> parts[Len(parts)]]

shortcode_from_url(u) == LastPart(UrlParts(u))

\* ------------------------------------------------------- upstream (opaque)
\* What one call of instaloader.Post.from_shortcode can do
UpstreamAnswers == {"post", "throttled", "bad_response", "not_found", "error"}

\* The message of a BadResponseException, as a sequence of fragments
ThrottleMsg == <<"401 Unauthorized", PleaseWait>>
OtherMsg == <<"JSON decode fail">>

\* The exception raised by the n-th upstream call of a request that answers a
UpstreamError(a, n) ==
    CASE a = "throttled" ->
            [type |-> "BadResponseException", msg |-> ThrottleMsg, call |-> n]
      [] a = "bad_response" ->
            [type |-> "BadResponseException", msg |-> OtherMsg, call |-> n]
      [] a = "not_found" ->
            [type |-> "QueryReturnedNotFoundException", msg |-> <<"404">>, call |-> n]
      [] OTHER ->
            [type |-> "ConnectionException", msg |-> <<"timeout">>, call |-> n]

\* the Post object of a shortcode
Post(sc) == [type |-> "Post", shortcode |-> sc]

\* raise HTTPException(status_code, detail) [from cause]
HTTPException(status, detail, cause) ==
    [type |-> "HTTPException", status_code |-> status, detail |-> detail,
     cause |-> cause]

\* ---------------------------------------------------- get_post_with_retry
\* "Please wait a few minutes before you try again" in msg
IsPleaseWaitAlways(msg) == TRUE

IsPleaseWait(msg) == \E i \in 1..Len(msg) : msg[i] = PleaseWait

\* wait = 60 * (attempt + 1)
BackoffWaitFlat(a) == BackoffUnit

BackoffWait(a) == BackoffUnit * (a + 1)

\* where control goes when get_post_with_retry returns or raises
AfterFetch(p) ==
    CASE endpoint[p] = "post_info" -> "pi_fetched"
      [] endpoint[p] = "download_post" -> "dl_fetched"
      [] OTHER -> "done"

\* for attempt in range(max_retries): the loop goes on
LoopGoesOnOneMore(p) == attempt[p] <= max_retries[p]

LoopGoesOn(p) == attempt[p] < max_retries[p]

\* the except clause that takes the upstream error e: "retry", "raise" (bare
\* raise of a BadResponseException), "not_found" or "uncaught"
ExceptClauseRetryAll(e) ==
    IF e.type \in {"BadResponseException", "QueryReturnedNotFoundException"}
    THEN "retry" ELSE "uncaught"

ExceptClauseNoRetry(e) ==
    IF e.type = "BadResponseException" THEN "raise"
    ELSE IF e.type = "QueryReturnedNotFoundException" THEN "not_found"
    ELSE "uncaught"

ExceptClause(e) ==
    IF e.type = "BadResponseException"
    THEN IF IsPleaseWait(e.msg) THEN "retry" ELSE "raise"
    ELSE IF e.type = "QueryReturnedNotFoundException" THEN "not_found"
    ELSE "uncaught"

\* last_err = e
RememberFirst(old, e) == IF old = None THEN e ELSE old

Remember(old, e) == e

\* One iteration of the loop body up to the sleep: the upstream call and the
\* except clauses
FetchAttempt(p) ==
    /\ pc[p] = "fetch"
    /\ LoopGoesOn(p)
    /\ \E a \in UpstreamAnswers :
         LET n == Len(calls[p]) + 1
             e == UpstreamError(a, n)
             clause == ExceptClause(e)
         IN  /\ calls' = [calls EXCEPT ![p] = Append(@, a)]
             /\ IF a = "post"
                THEN /\ post' = [post EXCEPT ![p] = Post(shortcode[p])]
                     /\ pc' = [pc EXCEPT ![p] = AfterFetch(p)]
                     /\ UNCHANGED <<last_err, exc>>
                ELSE /\ post' = post
                     /\ last_err' = IF e.type = "BadResponseException"
                                    THEN [last_err EXCEPT ![p] = Remember(@, e)]
                                    ELSE last_err
                     /\ pc' = [pc EXCEPT ![p] =
                                 IF clause = "retry" THEN "fetch_sleep"
                                 ELSE AfterFetch(p)]
                     /\ exc' = [exc EXCEPT ![p] =
                                 CASE clause = "retry" -> @
                                   [] clause = "not_found" ->
                                        HTTPException(404, <<"Post nao encontrado">>, e)
                                   [] OTHER -> e]
    /\ UNCHANGED <<session, login, endpoint, url, shortcode, tmp_dir, max_retries,
                   attempt, media_files, response, sleeps, fs, uuids>>

\* time.sleep(wait); continue
FetchSleep(p) ==
    /\ pc[p] = "fetch_sleep"
    /\ sleeps' = [sleeps EXCEPT ![p] = Append(@, BackoffWait(attempt[p]))]
    /\ attempt' = [attempt EXCEPT ![p] = @ + 1]
    /\ pc' = [pc EXCEPT ![p] = "fetch"]
    /\ UNCHANGED <<session, login, endpoint, url, shortcode, tmp_dir, max_retries,
                   last_err, post, media_files, exc, response, calls, fs, uuids>>

\* the loop is over: raise HTTPException(status_code=429, ...) from last_err
FetchExhausted(p) ==
    /\ pc[p] = "fetch"
    /\ ~LoopGoesOn(p)
    /\ exc' = [exc EXCEPT ![p] =
                 HTTPException(429, <<"Instagram aplicou rate limit">>, last_err[p])]
    /\ pc' = [pc EXCEPT ![p] = AfterFetch(p)]
    /\ UNCHANGED <<session, login, endpoint, url, shortcode, tmp_dir, max_retries,
                   attempt, last_err, post, media_files, response, calls,
                   sleeps, fs, uuids>>

\* ------------------------------------------------------------------- Init
NoRequest ==
    /\ endpoint = [p \in Reqs |-> "none"]
    /\ shortcode = [p \in Reqs |-> <<>>]
    /\ tmp_dir = [p \in Reqs |-> <<>>]
    /\ attempt = [p \in Reqs |-> 0]
    /\ last_err = [p \in Reqs |-> None]
    /\ post = [p \in Reqs |-> None]
    /\ media_files = [p \in Reqs |-> {}]
    /\ exc = [p \in Reqs |-> None]
    /\ login = [p \in Reqs |-> NotAsked]
    /\ response = [p \in Reqs |-> None]
    /\ calls = [p \in Reqs |-> <<>>]
    /\ sleeps = [p \in Reqs |-> <<>>]
    /\ fs = {}
    /\ uuids = 0

\* ------------------------------------------- the fetcher called on its own
\* get_post_with_retry(shortcode, max_retries) for every max_retries of
\* 0..MaxRetriesBound, one call per request
InitFetch ==
    /\ NoRequest
    /\ url = [p \in Reqs |-> <<>>]
    /\ session = TRUE
    /\ pc = [p \in Reqs |-> "fetch"]
    /\ max_retries \in [Reqs -> 0..MaxRetriesBound]

NextFetch ==
    \E p \in Reqs : FetchAttempt(p) \/ FetchSleep(p) \/ FetchExhausted(p)

SpecFetch == InitFetch /\ [][NextFetch]_vars

\* --------------------------------------- the extractor called on its own
Chars == {"a", "p", "/", "?"}

RECURSIVE StringsUpTo(_)
StringsUpTo(n) ==
    IF n = 0 THEN {<<>>}
    ELSE LET shorter == StringsUpTo(n - 1)
         IN  shorter \cup {Append(s, c) : s \in {t \in shorter : Len(t) = n - 1},
                                          c \in Chars}

\* the shortcodes of well-formed URLs: non-empty, no "/" and no "?"
Codes == {s \in StringsUpTo(MaxCodeLen) :
            /\ s # <<>>
            /\ \A i \in 1..Len(s) : s[i] \notin {"/", "?"}}

Https == <<"h", "t", "t", "p", "s", ":", "/", "/">>
Host == <<"h", ".", "i", "o">>

\* https://host/p/{code}/
PostUrl(code) == Https \o Host \o <<"/", "p", "/">> \o code \o <<"/">>

\* https://host/reel/{code}/?q=x
ReelUrl(code) ==
    Https \o Host \o <<"/", "r", "e", "e", "l", "/">> \o code
          \o <<"/", "?", "q", "=", "x">>

UrlInputs ==
    StringsUpTo(MaxUrlLen) \cup {PostUrl(c) : c \in Codes}
                           \cup {ReelUrl(c) : c \in Codes}

\* ------------------------------------------------------------- session
\* L.test_login(): a live query; the outcomes the library can produce.  It
\* answers the user name only for a session that was loaded.
LoginError == [type |-> "KeyError", msg |-> <<"data">>]
Identity(name) == [type |-> "str", value |-> name]

test_login ==
    {[raised |-> FALSE, value |-> None], [raised |-> TRUE, value |-> LoginError]}
    \cup (IF session
          THEN {[raised |-> FALSE, value |-> Identity(INSTAGRAM_USER)]}
          ELSE {})

\* ------------------------------------------------------------- responses
NoName == [stem |-> <<>>, ext |-> ""]

\* what the framework answers for an exception that leaves a handler: the
\* status of an HTTPException, 500 Internal Server Error for any other
ErrorResponse(e) ==
    IF e.type = "HTTPException"
    THEN [status |-> e.status_code, media_type |-> "application/json",
          filename |-> NoName, content |-> None, detail |-> e.detail]
    ELSE [status |-> 500, media_type |-> "text/plain",
          filename |-> NoName, content |-> None,
          detail |-> <<"Internal Server Error">>]

JsonResponse(body) ==
    [status |-> 200, media_type |-> "application/json", filename |-> NoName,
     content |-> body, detail |-> <<>>]

\* Response(content=..., media_type=..., headers={"Content-Disposition": ...}):
\* the content is the bytes already read
FileResponseByPath(content, mime, filename) ==
    [status |-> 200, media_type |-> mime, filename |-> filename,
     content |-> [read_later |-> content], detail |-> <<>>]

FileResponse(content, mime, filename) ==
    [status |-> 200, media_type |-> mime, filename |-> filename,
     content |-> content, detail |-> <<>>]

\* except HTTPException: raise / except Exception as e: raise HTTPException(500)
CatchAllAs500(e, prefix) ==
    HTTPException(500,
                  <<prefix>> \o (IF e.type = "HTTPException" THEN e.detail
                                 ELSE e.msg),
                  None)

Catch(e, prefix) ==
    IF e.type = "HTTPException" THEN e
    ELSE HTTPException(500, <<prefix>> \o e.msg, None)

\* the request is over
Finish(p, r) ==
    /\ response' = [response EXCEPT ![p] = r]
    /\ pc' = [pc EXCEPT ![p] = "done"]

\* ---------------------------------------------------------------- routes
RequestUrls == {PostUrl(<<"a">>), <<"?", "q">>}

\* a client sends a request
Request(p) ==
    /\ pc[p] = "idle"
    /\ \E ep \in {"health", "post_info", "download_post"} :
         /\ endpoint' = [endpoint EXCEPT ![p] = ep]
         /\ IF ep = "health"
            THEN url' = url
            ELSE \E u \in RequestUrls : url' = [url EXCEPT ![p] = u]
         /\ pc' = [pc EXCEPT ![p] =
                     CASE ep = "health" -> "health"
                       [] ep = "post_info" -> "pi_login"
                       [] OTHER -> "dl_login"]
    /\ UNCHANGED <<session, login, shortcode, tmp_dir, max_retries, attempt, last_err,
                   post, media_files, exc, response, calls, sleeps, fs, uuids>>

\* GET /health
health(p) ==
    /\ pc[p] = "health"
    /\ \E r \in test_login :
         /\ login' = [login EXCEPT ![p] = r]
         /\ IF r.raised
            THEN /\ exc' = [exc EXCEPT ![p] = r.value]
                 /\ Finish(p, ErrorResponse(r.value))
            ELSE /\ exc' = exc
                 /\ Finish(p, JsonResponse([status |-> "ok",
                                            instagram_user |-> r.value]))
    /\ UNCHANGED <<session, endpoint, url, shortcode, tmp_dir, max_retries,
                   attempt, last_err, post, media_files, calls, sleeps, fs, uuids>>

\* HTTPException(status_code=500, detail="Sessão do Instagram não carregada...")
SessionNotLoaded ==
    HTTPException(500, <<"Sessao do Instagram nao carregada">>, None)

\* if not L.test_login(): raise HTTPException(status_code=500, ...)
SessionGateOpen(p, from, to) ==
    /\ pc[p] = from
    /\ \E r \in test_login :
         /\ login' = [login EXCEPT ![p] = r]
         /\ exc' = exc
         /\ pc' = [pc EXCEPT ![p] = to]
         /\ response' = response
    /\ UNCHANGED <<session, endpoint, url, shortcode, tmp_dir, max_retries,
                   attempt, last_err, post, media_files, calls, sleeps, fs, uuids>>

SessionGate(p, from, to) ==
    /\ pc[p] = from
    /\ \E r \in test_login :
         /\ login' = [login EXCEPT ![p] = r]
         /\ IF r.raised
            THEN /\ exc' = [exc EXCEPT ![p] = r.value]
                 /\ Finish(p, ErrorResponse(r.value))
            ELSE IF r.value = None
            THEN /\ exc' = [exc EXCEPT ![p] = SessionNotLoaded]
                 /\ Finish(p, ErrorResponse(SessionNotLoaded))
            ELSE /\ exc' = exc
                 /\ pc' = [pc EXCEPT ![p] = to]
                 /\ response' = response
    /\ UNCHANGED <<session, endpoint, url, shortcode, tmp_dir, max_retries,
                   attempt, last_err, post, media_files, calls, sleeps, fs, uuids>>

\* get_post_with_retry(shortcode): the call binds the parameters and locals
EnterFetch(p) ==
    /\ max_retries' = [max_retries EXCEPT ![p] = DefaultMaxRetries]
    /\ attempt' = [attempt EXCEPT ![p] = 0]
    /\ last_err' = [last_err EXCEPT ![p] = None]

\* POST /post_info, lines 99-103
PostInfoLogin(p) == SessionGate(p, "pi_login", "pi_extract")

\* shortcode = shortcode_from_url(body.url), then the call of the fetcher
PostInfoExtract(p) ==
    /\ pc[p] = "pi_extract"
    /\ LET r == shortcode_from_url(url[p])
       IN  IF r.raised
           THEN /\ exc' = [exc EXCEPT ![p] = r.value]
                /\ Finish(p, ErrorResponse(r.value))
                /\ UNCHANGED <<shortcode, max_retries, attempt, last_err>>
           ELSE /\ shortcode' = [shortcode EXCEPT ![p] = r.value]
                /\ EnterFetch(p)
                /\ pc' = [pc EXCEPT ![p] = "fetch"]
                /\ UNCHANGED <<exc, response>>
    /\ UNCHANGED <<session, login, endpoint, url, tmp_dir, post, media_files, calls,
                   sleeps, fs, uuids>>

\* the try statement around get_post_with_retry and the return
PostInfoFetched(p) ==
    /\ pc[p] = "pi_fetched"
    /\ IF exc[p] # None
       THEN LET e == Catch(exc[p], "Erro ao acessar o post: ")
            IN  /\ exc' = [exc EXCEPT ![p] = e]
                /\ Finish(p, ErrorResponse(e))
       ELSE /\ exc' = exc
            /\ Finish(p, JsonResponse([shortcode |-> shortcode[p],
                                       post |-> post[p]]))
    /\ UNCHANGED <<session, login, endpoint, url, shortcode, tmp_dir, max_retries,
                   attempt, last_err, post, media_files, calls, sleeps, fs, uuids>>

\* ------------------------------------------------------------ file system
File(stem, ext) == [stem |-> <<stem>>, ext |-> ext]

\* path is dir or lies under dir
Under(path, dir) ==
    /\ Len(path) >= Len(dir)
    /\ SubSeq(path, 1, Len(dir)) = dir

\* shutil.rmtree(dir)
RmTreeKeep(files, dir) == files

RmTree(files, dir) == {f \in files : ~Under(f, dir)}

\* the entries of directory dir (dir.iterdir())
Children(files, dir) ==
    {f \in files : Len(f) = Len(dir) + 1 /\ Under(f, dir)}

\* uuid.uuid4(): the n-th value drawn differs from all drawn before
Uuid4Same(n) == <<"0">>

Uuid4(n) == <<ToString(n)>>

\* Path("/tmp") / f"ig-{uuid.uuid4()}"
TmpDir(n) == <<[stem |-> <<"ig-">> \o Uuid4(n), ext |-> ""]>>

\* tmp_dir / shortcode
TargetDir(p) == tmp_dir[p] \o <<[stem |-> shortcode[p], ext |-> ""]>>

\* tmp_dir / f"{shortcode}.zip"
ZipPath(p) == tmp_dir[p] \o <<[stem |-> shortcode[p], ext |-> "zip"]>>

\* f.suffix.lower(), on the extensions that occur
Lower(ext) ==
    CASE ext = "JPG" -> "jpg"
      [] ext = "MP4" -> "mp4"
      [] OTHER -> ext

\* [".jpg", ".jpeg", ".png", ".webp", ".mp4"]
MediaSuffixes == {"jpg", "jpeg", "png", "webp", "mp4"}

IsMedia(f) == Lower(f[Len(f)].ext) \in MediaSuffixes

\* the MIME type of a single media file, lines 177-184
MimeOf(f) ==
    LET suffix == Lower(f[Len(f)].ext)
    IN  IF suffix = "mp4" THEN "video/mp4"
        ELSE IF suffix \in {"jpg", "jpeg"} THEN "image/jpeg"
        ELSE IF suffix = "png" THEN "image/png"
        ELSE "application/octet-stream"

\* what L.download_post can leave in the target directory: media files,
\* captions (.txt), both or nothing
DownloadOutcomes ==
    {{File("m1", e)} : e \in {"jpg", "jpeg", "png", "webp", "mp4", "JPG", "txt"}}
    \cup {{},
          {File("m1", "jpg"), File("m1", "txt")},
          {File("m1", "jpg"), File("m2", "mp4")}}

OSError(what) == [type |-> "OSError", msg |-> <<what>>]

\* -------------------------------------------------------- download_post
\* lines 137-141
DownloadLogin(p) == SessionGate(p, "dl_login", "dl_extract")

\* shortcode = shortcode_from_url(body.url)
DownloadExtract(p) ==
    /\ pc[p] = "dl_extract"
    /\ LET r == shortcode_from_url(url[p])
       IN  IF r.raised
           THEN /\ exc' = [exc EXCEPT ![p] = r.value]
                /\ Finish(p, ErrorResponse(r.value))
                /\ shortcode' = shortcode
           ELSE /\ shortcode' = [shortcode EXCEPT ![p] = r.value]
                /\ pc' = [pc EXCEPT ![p] = "dl_mktmp"]
                /\ UNCHANGED <<exc, response>>
    /\ UNCHANGED <<session, login, endpoint, url, tmp_dir, max_retries, attempt,
                   last_err, post, media_files, calls, sleeps, fs, uuids>>

\* tmp_dir = Path("/tmp") / f"ig-{uuid.uuid4()}"; tmp_dir.mkdir(...); then the
\* try statement is entered and the fetcher called
DownloadMkTmp(p) ==
    /\ pc[p] = "dl_mktmp"
    /\ uuids' = uuids + 1
    /\ tmp_dir' = [tmp_dir EXCEPT ![p] = TmpDir(uuids')]
    /\ fs' = fs \cup {TmpDir(uuids')}
    /\ EnterFetch(p)
    /\ pc' = [pc EXCEPT ![p] = "fetch"]
    /\ UNCHANGED <<session, login, endpoint, url, shortcode, post, media_files, exc,
                   response, calls, sleeps>>

\* an exception e raised inside the try statement: the except clauses run,
\* then the finally clause
Raise(p, e) ==
    /\ exc' = [exc EXCEPT ![p] = Catch(e, "Erro ao baixar o post: ")]
    /\ pc' = [pc EXCEPT ![p] = "dl_finally"]

\* post = get_post_with_retry(shortcode) is over; target_dir.mkdir(...)
DownloadFetchedAnyway(p) ==
    /\ pc[p] = "dl_fetched"
    /\ fs' = fs \cup {TargetDir(p)}
    /\ pc' = [pc EXCEPT ![p] = "dl_download"]
    /\ exc' = exc
    /\ UNCHANGED <<session, login, endpoint, url, shortcode, tmp_dir, max_retries,
                   attempt, last_err, post, media_files, response, calls,
                   sleeps, uuids>>

DownloadFetched(p) ==
    /\ pc[p] = "dl_fetched"
    /\ IF exc[p] # None
       THEN /\ Raise(p, exc[p])
            /\ fs' = fs
       ELSE /\ fs' = fs \cup {TargetDir(p)}
            /\ pc' = [pc EXCEPT ![p] = "dl_download"]
            /\ exc' = exc
    /\ UNCHANGED <<session, login, endpoint, url, shortcode, tmp_dir, max_retries,
                   attempt, last_err, post, media_files, response, calls,
                   sleeps, uuids>>

\* L.download_post(post, target=str(target_dir)): writes files (making the
\* directories they need), and may fail after writing some
DownloadMedia(p) ==
    /\ pc[p] = "dl_download"
    /\ \E files \in DownloadOutcomes, ok \in BOOLEAN :
         /\ fs' = IF files = {} THEN fs
                  ELSE fs \cup {tmp_dir[p], TargetDir(p)}
                          \cup {TargetDir(p) \o <<f>> : f \in files}
         /\ IF ok
            THEN /\ pc' = [pc EXCEPT ![p] = "dl_scan"]
                 /\ exc' = exc
            ELSE Raise(p, [type |-> "ConnectionException",
                           msg |-> <<"download failed">>])
    /\ UNCHANGED <<session, login, endpoint, url, shortcode, tmp_dir, max_retries,
                   attempt, last_err, post, media_files, response, calls,
                   sleeps, uuids>>

\* HTTPException(status_code=500, detail="Nenhum arquivo de mídia ...")
NoMediaFound ==
    HTTPException(500, <<"Nenhum arquivo de midia foi baixado do post.">>, None)

\* if not media_files / if len(media_files) == 1 / else
ScanBranchOffByOne(found) ==
    IF found = {} THEN "none"
    ELSE IF Cardinality(found) <= 2 THEN "single"
    ELSE "zip"

ScanBranchNoEmptyCheck(found) ==
    IF Cardinality(found) = 1 THEN "single" ELSE "zip"

ScanBranch(found) ==
    IF found = {} THEN "none"
    ELSE IF Cardinality(found) = 1 THEN "single"
    ELSE "zip"

\* lines 160-169: the scan of target_dir and the no-media error
DownloadScan(p) ==
    /\ pc[p] = "dl_scan"
    /\ \E ok \in BOOLEAN :
         LET found == {f \in Children(fs, TargetDir(p)) : IsMedia(f)}
         IN  IF ~ok \/ TargetDir(p) \notin fs
             THEN /\ Raise(p, OSError("iterdir"))
                  /\ media_files' = media_files
             ELSE /\ media_files' = [media_files EXCEPT ![p] = found]
                  /\ IF ScanBranch(found) = "none"
                     THEN Raise(p, NoMediaFound)
                     ELSE /\ pc' = [pc EXCEPT ![p] =
                                      IF ScanBranch(found) = "single"
                                      THEN "dl_single" ELSE "dl_zip"]
                          /\ exc' = exc
    /\ UNCHANGED <<session, login, endpoint, url, shortcode, tmp_dir, max_retries,
                   attempt, last_err, post, response, calls, sleeps, fs, uuids>>

\* lines 172-192: one media file, returned as it is
DownloadSingle(p) ==
    /\ pc[p] = "dl_single"
    /\ LET media_file == CHOOSE f \in media_files[p] : TRUE
       IN  IF media_file \in fs
           THEN /\ response' = [response EXCEPT ![p] =
                      FileResponse([bytes_of |-> media_file], MimeOf(media_file),
                                   media_file[Len(media_file)])]
                /\ pc' = [pc EXCEPT ![p] = "dl_finally"]
                /\ exc' = exc
           ELSE /\ Raise(p, OSError("read_bytes"))
                /\ response' = response
    /\ UNCHANGED <<session, login, endpoint, url, shortcode, tmp_dir, max_retries,
                   attempt, last_err, post, media_files, calls, sleeps, fs, uuids>>

\* lines 195-206: several media files, the whole target_dir as a zip archive
DownloadZip(p) ==
    /\ pc[p] = "dl_zip"
    /\ \E ok \in BOOLEAN :
         IF ok /\ TargetDir(p) \in fs
         THEN /\ fs' = fs \cup {ZipPath(p)}
              /\ response' = [response EXCEPT ![p] =
                    FileResponse([zip_of |-> Children(fs, TargetDir(p))],
                                 "application/zip",
                                 [stem |-> shortcode[p], ext |-> "zip"])]
              /\ pc' = [pc EXCEPT ![p] = "dl_finally"]
              /\ exc' = exc
         ELSE /\ Raise(p, OSError("make_archive"))
              /\ UNCHANGED <<fs, response>>
    /\ UNCHANGED <<session, login, endpoint, url, shortcode, tmp_dir, max_retries,
                   attempt, last_err, post, media_files, calls, sleeps, uuids>>

\* finally: shutil.rmtree(tmp_dir); then the response or the error leaves.
\* The tree is the request's own and its removal is taken to succeed (an
\* error of rmtree is swallowed and changes nothing else).
DownloadFinally(p) ==
    /\ pc[p] = "dl_finally"
    /\ fs' = RmTree(fs, tmp_dir[p])
    /\ Finish(p, IF exc[p] # None THEN ErrorResponse(exc[p]) ELSE response[p])
    /\ UNCHANGED <<session, login, endpoint, url, shortcode, tmp_dir, max_retries,
                   attempt, last_err, post, media_files, exc, calls, sleeps, uuids>>

\* ---------------------------------------------------------- the service
\* the state after the module is imported: the session file was loaded or
\* loading failed (the error is printed and swallowed); one request arrives
Init ==
    /\ NoRequest
    /\ url = [p \in Reqs |-> <<>>]
    /\ session \in BOOLEAN
    /\ pc = [p \in Reqs |-> IF p = 1 THEN "idle" ELSE "off"]
    /\ max_retries = [p \in Reqs |-> DefaultMaxRetries]

Next ==
    \E p \in Reqs :
        \/ Request(p)
        \/ health(p)
        \/ PostInfoLogin(p)
        \/ PostInfoExtract(p)
        \/ PostInfoFetched(p)
        \/ DownloadLogin(p)
        \/ DownloadExtract(p)
        \/ DownloadMkTmp(p)
        \/ DownloadFetched(p)
        \/ DownloadMedia(p)
        \/ DownloadScan(p)
        \/ DownloadSingle(p)
        \/ DownloadZip(p)
        \/ DownloadFinally(p)
        \/ FetchAttempt(p)
        \/ FetchSleep(p)
        \/ FetchExhausted(p)

Spec == Init /\ [][Next]_vars

\* shortcode_from_url applied to every URL of UrlInputs
Extract(p) ==
    /\ pc[p] = "extract"
    /\ LET r == shortcode_from_url(url[p])
       IN  IF r.raised
           THEN /\ exc' = [exc EXCEPT ![p] = r.value]
                /\ shortcode' = shortcode
           ELSE /\ shortcode' = [shortcode EXCEPT ![p] = r.value]
                /\ exc' = exc
    /\ pc' = [pc EXCEPT ![p] = "extracted"]
    /\ UNCHANGED <<session, login, endpoint, url, tmp_dir, max_retries, attempt,
                   last_err, post, media_files, response, calls, sleeps, fs,
                   uuids>>

InitUrl ==
    /\ NoRequest
    /\ \E u \in UrlInputs : url = [p \in Reqs |-> IF p = 1 THEN u ELSE <<>>]
    /\ session = TRUE
    /\ pc = [p \in Reqs |-> IF p = 1 THEN "extract" ELSE "off"]
    /\ max_retries = [p \in Reqs |-> DefaultMaxRetries]

NextUrl == \E p \in Reqs : Extract(p)

SpecUrl == InitUrl /\ [][NextUrl]_vars

\* ------------------------------------------ concurrent download requests
\* Every request is a download_post of the same post that has passed the
\* session check and the extraction; the requests run interleaved.  The
\* upstream answers with the post or with not-found, and the download writes
\* jpg and mp4 files.
ConcAnswers == {"post", "not_found"}
ConcSuffixes == {"", "jpg", "mp4"}

InitConc ==
    /\ session = TRUE
    /\ endpoint = [p \in Reqs |-> "download_post"]
    /\ url = [p \in Reqs |-> PostUrl(<<"a">>)]
    /\ login = [p \in Reqs |->
                  [raised |-> FALSE, value |-> Identity(INSTAGRAM_USER)]]
    /\ shortcode = [p \in Reqs |-> <<"a">>]
    /\ pc = [p \in Reqs |-> "dl_mktmp"]
    /\ tmp_dir = [p \in Reqs |-> <<>>]
    /\ max_retries = [p \in Reqs |-> DefaultMaxRetries]
    /\ attempt = [p \in Reqs |-> 0]
    /\ last_err = [p \in Reqs |-> None]
    /\ post = [p \in Reqs |-> None]
    /\ media_files = [p \in Reqs |-> {}]
    /\ exc = [p \in Reqs |-> None]
    /\ response = [p \in Reqs |-> None]
    /\ calls = [p \in Reqs |-> <<>>]
    /\ sleeps = [p \in Reqs |-> <<>>]
    /\ fs = {}
    /\ uuids = 0

NextConc ==
    \E p \in Reqs :
        \/ DownloadMkTmp(p)
        \/ FetchAttempt(p) /\ calls'[p][Len(calls'[p])] \in ConcAnswers
        \/ DownloadFetched(p)
        \/ DownloadMedia(p) /\ \A f \in fs' \ fs : f[Len(f)].ext \in ConcSuffixes
        \/ DownloadScan(p)
        \/ DownloadSingle(p)
        \/ DownloadZip(p)
        \/ DownloadFinally(p)

SpecConc == InitConc /\ [][NextConc]_vars

\* ============================================================ properties
Handled(p) == endpoint[p] \in {"post_info", "download_post"}
Done(p) == pc[p] = "done"
LastCall(p) == calls[p][Len(calls[p])]
AllThrottled(p) == \A i \in 1..Len(calls[p]) : calls[p][i] = "throttled"
IsHttp(e, status) == e.type = "HTTPException" /\ e.status_code = status

\* C1: an attempt of get_post_with_retry that the upstream answers with
\* not-found is the last one: the fetch is over with HTTPException 404, no
\* call follows it and no sleep was made for it (the sleeps are those of the
\* throttled attempts before it).
C1_NotFoundFailsAtOnce ==
    \A p \in Reqs : \A i \in 1..Len(calls[p]) :
        calls[p][i] = "not_found" =>
            /\ i = Len(calls[p])
            /\ Done(p)
            /\ IsHttp(exc[p], 404)
            /\ exc[p].cause = UpstreamError("not_found", i)
            /\ Len(sleeps[p]) = i - 1

C1_Witness ==
    \E p \in Reqs :
        /\ calls[p] = <<"not_found">>
        /\ Done(p)
        /\ IsHttp(exc[p], 404)
        /\ sleeps[p] = <<>>

\* C2: a fetch with max_retries = N that is over and whose every upstream
\* call was throttled has failed with HTTPException 429 after exactly N calls.
C2_AlwaysThrottledIs429AfterN ==
    \A p \in Reqs :
        (Done(p) /\ AllThrottled(p)) =>
            /\ IsHttp(exc[p], 429)
            /\ Len(calls[p]) = max_retries[p]

C2_Witness ==
    \E p \in Reqs :
        /\ Done(p)
        /\ max_retries[p] = DefaultMaxRetries
        /\ calls[p] = <<"throttled", "throttled", "throttled">>
        /\ IsHttp(exc[p], 429)

\* C3: in every fetch the k-th backoff sleep lasts k base units, so the
\* sleeps are strictly increasing; and a fetch with max_retries = 3 whose
\* upstream throttles twice and then answers returns the post, having slept
\* one and then two base units.
C3_BackoffIncreasesThenSuccess ==
    \A p \in Reqs :
        /\ \A k \in 1..Len(sleeps[p]) : sleeps[p][k] = k * BackoffUnit
        /\ \A k \in 1..(Len(sleeps[p]) - 1) : sleeps[p][k] < sleeps[p][k + 1]
        /\ (max_retries[p] = DefaultMaxRetries
            /\ calls[p] = <<"throttled", "throttled", "post">>) =>
               /\ Done(p)
               /\ exc[p] = None
               /\ post[p] = Post(shortcode[p])
               /\ Len(sleeps[p]) = 2

C3_Witness ==
    \E p \in Reqs :
        /\ max_retries[p] = DefaultMaxRetries
        /\ calls[p] = <<"throttled", "throttled", "post">>
        /\ Done(p)
        /\ post[p] = Post(shortcode[p])
        /\ Len(sleeps[p]) = 2
        /\ sleeps[p][1] < sleeps[p][2]

\* C4: an upstream error that is neither not-found nor the throttling signal
\* ends the fetch on its attempt: that very error leaves get_post_with_retry,
\* no call follows it and no sleep was made for it.
C4_OtherErrorPropagatesAtOnce ==
    \A p \in Reqs : \A i \in 1..Len(calls[p]) :
        calls[p][i] \in {"bad_response", "error"} =>
            /\ i = Len(calls[p])
            /\ Done(p)
            /\ exc[p] = UpstreamError(calls[p][i], i)
            /\ Len(sleeps[p]) = i - 1

C4_Witness ==
    \E p \in Reqs :
        /\ calls[p] = <<"throttled", "throttled", "bad_response">>
        /\ Done(p)
        /\ exc[p] = UpstreamError("bad_response", 3)
        /\ Len(sleeps[p]) = 2

C6_StatusMapping ==
    \A p \in Reqs :
        (Done(p) /\ Handled(p)) =>
            LET st == response[p].status
                n == Len(calls[p])
                notfound == n > 0 /\ LastCall(p) = "not_found"
                exhausted == n = DefaultMaxRetries /\ AllThrottled(p)
            IN  /\ st \in {200, 404, 429, 500}
                /\ st = 404 <=> notfound
                /\ st = 429 <=> exhausted
                /\ st = 200 => (n > 0 /\ LastCall(p) = "post" /\ exc[p] = None)
                /\ (n > 0 /\ LastCall(p) \in {"bad_response", "error"}) => st = 500
                /\ (login[p].raised \/ login[p].value = None) => st = 500

C6_Witness ==
    \E p \in Reqs :
        /\ Done(p)
        /\ endpoint[p] = "download_post"
        /\ calls[p] = <<"throttled", "throttled", "throttled">>
        /\ response[p].status = 429

\* the MIME type the specification gives to an extension
ClaimedMime(ext) ==
    CASE ext = "mp4" -> "video/mp4"
      [] ext \in {"jpg", "jpeg"} -> "image/jpeg"
      [] ext = "png" -> "image/png"
      [] ext = "webp" -> "image/webp"
      [] OTHER -> "application/octet-stream"

SingleFile(p) ==
    /\ Done(p)
    /\ endpoint[p] = "download_post"
    /\ response[p].status = 200
    /\ Cardinality(media_files[p]) = 1

\* C7: a download_post that found exactly one media file answers with the
\* MIME type mp4 -> video/mp4, jpg and jpeg -> image/jpeg, png -> image/png,
\* webp -> image/webp, anything else -> application/octet-stream.
C7_MimeFromExtension ==
    \A p \in Reqs :
        SingleFile(p) =>
            response[p].media_type = ClaimedMime(Lower(response[p].filename.ext))

\* C8: a post_info or download_post request of an authenticated session whose
\* URL has no non-empty segment is answered 400, without any upstream call
\* for the post.
C8_NoShortcodeIs400 ==
    \A p \in Reqs :
        (/\ Done(p)
         /\ Handled(p)
         /\ UrlParts(url[p]) = <<>>
         /\ ~login[p].raised
         /\ login[p].value # None) =>
            /\ response[p].status = 400
            /\ calls[p] = <<>>

\* C9: for every non-empty code without "/" and "?", shortcode_from_url
\* returns exactly the code for https://host/p/{code}/ and for
\* https://host/reel/{code}/?q=x.
C9_WellFormedUrlYieldsCode ==
    \A p \in Reqs : \A c \in Codes :
        (pc[p] = "extracted" /\ url[p] \in {PostUrl(c), ReelUrl(c)}) =>
            /\ exc[p] = None
            /\ shortcode[p] = c

C9_Witness ==
    \E p \in Reqs : \E c \in Codes :
        /\ pc[p] = "extracted"
        /\ url[p] = ReelUrl(c)
        /\ Len(c) = MaxCodeLen
        /\ shortcode[p] = c

\* C10: a post_info or download_post request whose live session check did
\* not answer a user name (the session was never loaded, or it is stale, or
\* the check failed) is over with status 500, has made no upstream call for
\* a post and has created no temporary directory; with a session that was
\* never loaded no request gets past the check.
C10_UnauthenticatedFailsWith500 ==
    \A p \in Reqs :
        /\ (/\ Handled(p)
            /\ login[p] # NotAsked
            /\ (login[p].raised \/ login[p].value = None)) =>
               /\ Done(p)
               /\ response[p].status = 500
               /\ calls[p] = <<>>
               /\ post[p] = None
               /\ tmp_dir[p] = <<>>
               /\ fs = {}
        /\ (Handled(p) /\ ~session /\ login[p] # NotAsked) =>
               (login[p].raised \/ login[p].value = None)

C10_Witness ==
    \E p \in Reqs :
        /\ session
        /\ endpoint[p] = "download_post"
        /\ login[p].value = None
        /\ Done(p)
        /\ response[p].status = 500
        /\ response[p].detail = SessionNotLoaded.detail

\* the extensions the specification counts as media, whatever their case
AllowedMedia == {"mp4", "jpg", "jpeg", "png", "webp", "MP4", "JPG"}

\* the media files that lie in the target directory of request p
MediaOnDisk(p) ==
    {f \in fs : /\ Len(f) = Len(tmp_dir[p]) + 2
                /\ SubSeq(f, 1, Len(f) - 1) = TargetDir(p)
                /\ f[Len(f)].ext \in AllowedMedia}

\* request p is a download_post whose try body is over without an exception:
\* the response is made and the finally clause has not run yet
Returning(p) ==
    /\ endpoint[p] = "download_post"
    /\ pc[p] = "dl_finally"
    /\ exc[p] = None

\* C11: a download_post that returns a response has found one media file or
\* more; with exactly one media file in the target directory the response is
\* that file's bytes under its own name, with more than one it is a zip of
\* the directory with Content-Type application/zip and name {shortcode}.zip;
\* files of other extensions do not change the choice.
C11_SingleOrZipByMediaCount ==
    \A p \in Reqs :
        Returning(p) =>
            LET n == Cardinality(MediaOnDisk(p))
                r == response[p]
            IN  /\ n >= 1
                /\ r.status = 200
                /\ n = 1 => /\ r.content = [bytes_of |-> CHOOSE f \in MediaOnDisk(p) : TRUE]
                            /\ <<r.filename>> = SubSeq(r.content.bytes_of,
                                                       Len(TargetDir(p)) + 1,
                                                       Len(TargetDir(p)) + 1)
                /\ n > 1 => /\ r.media_type = "application/zip"
                            /\ r.filename = [stem |-> shortcode[p], ext |-> "zip"]
                            /\ r.content = [zip_of |-> Children(fs, TargetDir(p))]

C11_Witness ==
    \E p \in Reqs :
        /\ Returning(p)
        /\ Cardinality(MediaOnDisk(p)) = 1
        /\ Cardinality(Children(fs, TargetDir(p))) = 2
        /\ response[p].filename = [stem |-> <<"m1">>, ext |-> "jpg"]

\* C12: when the fetch returned the post and the target directory holds no
\* media file at the end of the try body, download_post raises an error of
\* status 500: the no-media error, unless the download or the scan failed
\* with an error of their own; and no 200 is answered without media content.
C12_NoMediaIs500 ==
    \A p \in Reqs :
        /\ (/\ endpoint[p] = "download_post"
            /\ pc[p] = "dl_finally"
            /\ post[p] # None
            /\ MediaOnDisk(p) = {}) =>
               /\ IsHttp(exc[p], 500)
               /\ \/ exc[p] = NoMediaFound
                  \/ exc[p].detail[1] = "Erro ao baixar o post: "
        /\ (Done(p) /\ endpoint[p] = "download_post" /\ response[p].status = 200) =>
               /\ media_files[p] # {}
               /\ response[p].content # None

C12_Witness ==
    \E p \in Reqs :
        /\ Done(p)
        /\ endpoint[p] = "download_post"
        /\ exc[p] = NoMediaFound
        /\ response[p].status = 500
        /\ response[p].detail = NoMediaFound.detail

\* C13: a finished GET /health request has answered 200, whatever the state
\* of the session and whatever the live check did.
C13_HealthAlways200 ==
    \A p \in Reqs :
        (Done(p) /\ endpoint[p] = "health") => response[p].status = 200

\* the path markers, as strings
Markers == {<<"p">>, <<"r", "e", "e", "l">>, <<"t", "v">>}

\* C14: shortcode_from_url never returns one of the path markers p, reel, tv.
C14_MarkerIsNoShortcode ==
    \A p \in Reqs :
        (pc[p] = "extracted" /\ exc[p] = None) => shortcode[p] \notin Markers

\* C15: in a fetch that is over every backoff sleep was followed by a further
\* upstream call: there are fewer sleeps than calls, or no sleep at all.
C15_EverySleepIsFollowedByACall ==
    \A p \in Reqs :
        Done(p) => (sleeps[p] = <<>> \/ Len(sleeps[p]) < Len(calls[p]))

\* C16 as stated: the HTTPException 429 of get_post_with_retry has as cause
\* the upstream error of the last call made, never an empty cause.
C16_CauseIsLastErrorAlways ==
    \A p \in Reqs :
        (Done(p) /\ IsHttp(exc[p], 429)) =>
            /\ exc[p].cause # None
            /\ exc[p].cause = UpstreamError("throttled", Len(calls[p]))

\* C16: the HTTPException 429 of a get_post_with_retry that made at least
\* one upstream call has as cause the error of its last call; with
\* max_retries = 0 no call is made and the cause is empty.
C16_CauseIsLastError ==
    \A p \in Reqs :
        (Done(p) /\ IsHttp(exc[p], 429)) =>
            IF calls[p] = <<>>
            THEN max_retries[p] = 0 /\ exc[p].cause = None
            ELSE /\ exc[p].cause = UpstreamError("throttled", Len(calls[p]))
                 /\ exc[p].cause.call = max_retries[p]

C16_Witness ==
    \E p \in Reqs :
        /\ Done(p)
        /\ IsHttp(exc[p], 429)
        /\ Len(calls[p]) = DefaultMaxRetries
        /\ exc[p].cause.call = DefaultMaxRetries

\* index of the first answer of request p that is not the throttling signal,
\* or 0
FirstNotThrottled(p) ==
    IF AllThrottled(p) THEN 0
    ELSE CHOOSE i \in 1..Len(calls[p]) :
            /\ calls[p][i] # "throttled"
            /\ \A j \in 1..(i - 1) : calls[p][j] = "throttled"

\* C18: get_post_with_retry never makes more than max_retries upstream
\* calls; once it is over it has failed with 429 exactly when it made
\* max_retries calls that were all throttled (none at all for max_retries =
\* 0), and otherwise its first answer that was not throttled is its last one
\* and decides the outcome: the post, 404 for not-found, the error itself for
\* any other error.
C18_OutcomeOfEveryAnswerSequence ==
    \A p \in Reqs :
        /\ Len(calls[p]) <= max_retries[p]
        /\ Done(p) =>
            LET i == FirstNotThrottled(p)
            IN  /\ (exc[p] # None /\ IsHttp(exc[p], 429))
                      <=> (AllThrottled(p) /\ Len(calls[p]) = max_retries[p])
                /\ AllThrottled(p) => Len(calls[p]) = max_retries[p]
                /\ i > 0 =>
                     /\ i = Len(calls[p])
                     /\ calls[p][i] = "post" =>
                            (exc[p] = None /\ post[p] = Post(shortcode[p]))
                     /\ calls[p][i] = "not_found" =>
                            (IsHttp(exc[p], 404) /\ post[p] = None)
                     /\ calls[p][i] \in {"bad_response", "error"} =>
                            (exc[p] = UpstreamError(calls[p][i], i) /\ post[p] = None)

C18_Witness ==
    \E p \in Reqs :
        /\ Done(p)
        /\ max_retries[p] = 0
        /\ calls[p] = <<>>
        /\ IsHttp(exc[p], 429)
        /\ \E q \in Reqs :
             /\ Done(q)
             /\ max_retries[q] = MaxRetriesBound
             /\ Len(calls[q]) = MaxRetriesBound
             /\ LastCall(q) = "post"

\* the positions of download_post from the download step to the archive
DownloadSteps == {"dl_download", "dl_scan", "dl_single", "dl_zip"}

\* C19: a download_post request is at the download, the scan or the archive
\* step only with the post that get_post_with_retry returned; a request whose
\* fetch ended in an error holds no post, has written nothing but its
\* temporary directory, has scanned nothing and answers no 200.
C19_DownloadOnlyAfterPost ==
    \A p \in Reqs :
        endpoint[p] = "download_post" =>
            /\ pc[p] \in DownloadSteps =>
                   (post[p] = Post(shortcode[p]) /\ LastCall(p) = "post"
                    /\ exc[p] = None)
            /\ (tmp_dir[p] # <<>> /\ pc[p] \in {"dl_fetched", "dl_finally", "done"}
                /\ post[p] = None) =>
                   /\ exc[p] # None
                   /\ \A f \in fs : Under(f, tmp_dir[p]) => f = tmp_dir[p]
                   /\ media_files[p] = {}
                   /\ Done(p) => response[p].status \in {404, 429, 500}

C19_Witness ==
    \E p \in Reqs :
        /\ endpoint[p] = "download_post"
        /\ pc[p] = "dl_finally"
        /\ post[p] = None
        /\ IsHttp(exc[p], 429)
        /\ fs = {tmp_dir[p]}

\* C20: when the try body of download_post is over with a response, the
\* content of the response is bytes that were read while the file was on
\* disk (the media file, or the archive of the target directory), and the
\* temporary directory still exists; the response that leaves after the
\* cleanup is that same response.
C20_ContentReadBeforeCleanup ==
    \A p \in Reqs :
        /\ Returning(p) =>
              LET c == response[p].content
              IN  /\ tmp_dir[p] \in fs
                  /\ \/ /\ DOMAIN c = {"bytes_of"}
                        /\ c.bytes_of \in fs
                     \/ /\ DOMAIN c = {"zip_of"}
                        /\ ZipPath(p) \in fs
                        /\ c.zip_of # {}
                        /\ c.zip_of \subseteq fs
        /\ (Done(p) /\ endpoint[p] = "download_post" /\ response[p].status = 200) =>
              /\ DOMAIN response[p].content \in {{"bytes_of"}, {"zip_of"}}
              /\ \A f \in fs : ~Under(f, tmp_dir[p])

C20_Witness ==
    \E p \in Reqs :
        /\ Done(p)
        /\ endpoint[p] = "download_post"
        /\ response[p].status = 200
        /\ DOMAIN response[p].content = {"zip_of"}
        /\ Cardinality(response[p].content.zip_of) = 2
        /\ fs = {}

\* what lies in or under the temporary directory of request p
OwnFiles(files, p) == {f \in files : Under(f, tmp_dir[p])}

\* request p has its temporary directory and has not finished
Running(p) == tmp_dir[p] # <<>> /\ pc[p] # "done"

\* C17: in every interleaving of concurrent download_post requests (all for
\* the same shortcode) the temporary directories of two requests differ, and
\* a step of one request, its cleanup included, leaves what lies under the
\* temporary directory of every other running request as it is.
C17_PrivateTmpDirs ==
    [][\A p \in Reqs :
          /\ \A q \in Reqs \ {p} :
                (tmp_dir'[p] # <<>> /\ tmp_dir'[q] # <<>>) =>
                    tmp_dir'[p] # tmp_dir'[q]
          /\ (Running(p) /\ pc'[p] = pc[p]) =>
                OwnFiles(fs', p) = OwnFiles(fs, p)]_vars

C17_Witness ==
    \E p \in Reqs : \E q \in Reqs \ {p} :
        /\ shortcode[p] = shortcode[q]
        /\ pc[q] = "done"
        /\ tmp_dir[q] # <<>>
        /\ response[q].status = 200
        /\ pc[p] = "dl_zip"
        /\ Cardinality(OwnFiles(fs, p)) = 4
        /\ OwnFiles(fs, q) = {}

====
